---- MODULE Spec2Model ----
(*
  Model of the T13 collapse engine (src/t13_collapse.py) and of the mirror
  sweep controller (src/Claude.py).

  Python strings are sequences of one-character strings, so that the string
  operations of the source (upper, lower, strip, substring, reversal, sorting,
  int() and str()) are computed and not assumed.  Characters outside ASCII are
  named: "sub1" and "sub3" are the subscript digits U+2081 and U+2083,
  "e_acute" is U+00E9, "combining_acute" is U+0301, "emdash" is U+2014.

  Python values that a caller may pass as x or D are tagged records
  (PyInt, PyStr, PyNone); a call returns Ok(...) or Raise(exception name).
*)
EXTENDS Integers, Sequences, FiniteSets, TLC

VARIABLES
    \* ---- the collapse engine, called as a pure function ----
    call,       \* the arguments of the call under study
    ret,        \* what the call returned or raised; NoRet before the call
    \* ---- PersistentMirror (src/Claude.py) ----
    seeds,      \* the argument of run_sweep
    pc,         \* position of run_sweep
    seedIdx,    \* index of the for loop's current seed in seeds
    iter,       \* self.iter
    stop,       \* self.stop
    start,      \* self.start
    now,        \* time.time(), in seconds
    locked,     \* run_sweep's local variable locked
    results,    \* run_sweep's local list results
    exc,        \* the exception that left run_sweep, "" while none did
    calls,      \* ghost: oracle calls made, per seed position
    sleeps,     \* ghost: time.sleep calls made, per seed position
    firstLock,  \* ghost: per seed position, the call whose reply locked first (0: none)
    stopSeen,   \* ghost: where the cancellation flag was when it was first raised
    loopStart   \* ghost: per seed position, time.time() when the seed's loop began

collapseVars == <<call, ret>>
sweepVars == <<seeds, pc, seedIdx, iter, stop, start, now, locked, results, exc,
               calls, sleeps, firstLock, stopSeen, loopStart>>
vars == <<call, ret, seeds, pc, seedIdx, iter, stop, start, now, locked, results,
          exc, calls, sleeps, firstLock, stopSeen, loopStart>>

-----------------------------------------------------------------------------
(* Python values and call outcomes *)

PyInt(i) == [t |-> "int", i |-> i, s |-> <<>>]
PyStr(s) == [t |-> "str", i |-> 0, s |-> s]
PyNone == [t |-> "none", i |-> 0, s |-> <<>>]

Ok(v) == [kind |-> "ok", v |-> v]
Raise(e) == [kind |-> "raise", exc |-> e]
NoRet == [kind |-> "none"]

-----------------------------------------------------------------------------
(* Characters *)

UpperLetters == <<"A", "B", "C", "D", "E", "F", "G", "H", "I", "J", "K", "L", "M",
                  "N", "O", "P", "Q", "R", "S", "T", "U", "V", "W", "X", "Y", "Z">>
LowerLetters == <<"a", "b", "c", "d", "e", "f", "g", "h", "i", "j", "k", "l", "m",
                  "n", "o", "p", "q", "r", "s", "t", "u", "v", "w", "x", "y", "z">>
DigitChars == <<"0", "1", "2", "3", "4", "5", "6", "7", "8", "9">>

\* position of c in seq, 0 when absent
IndexOf(seq, c) ==
    IF \E i \in 1..Len(seq) : seq[i] = c
    THEN CHOOSE i \in 1..Len(seq) : seq[i] = c /\ \A j \in 1..(i - 1) : seq[j] # c
    ELSE 0

IsUpper(c) == IndexOf(UpperLetters, c) # 0
IsLower(c) == IndexOf(LowerLetters, c) # 0
IsDigit(c) == IndexOf(DigitChars, c) # 0
DigitVal(c) == IndexOf(DigitChars, c) - 1

\* str.upper and str.lower, character by character
UpperChar(c) ==
    IF IsLower(c) THEN UpperLetters[IndexOf(LowerLetters, c)]
    ELSE IF c = "e_acute" THEN "E_acute"
    ELSE c
LowerChar(c) ==
    IF IsUpper(c) THEN LowerLetters[IndexOf(UpperLetters, c)]
    ELSE IF c = "E_acute" THEN "e_acute"
    ELSE c
upper(s) == [i \in 1..Len(s) |-> UpperChar(s[i])]
lower(s) == [i \in 1..Len(s) |-> LowerChar(s[i])]

\* unicodedata.normalize('NFKD', c) of one character
NFKDChar(c) ==
    IF c = "e_acute" THEN <<"e", "combining_acute">>
    ELSE IF c = "E_acute" THEN <<"E", "combining_acute">>
    ELSE IF c = "sub1" THEN <<"1">>
    ELSE IF c = "sub3" THEN <<"3">>
    ELSE <<c>>
RECURSIVE NFKD(_)
NFKD(s) == IF s = <<>> THEN <<>> ELSE NFKDChar(Head(s)) \o NFKD(Tail(s))

\* str.strip(): leading and trailing spaces removed
RECURSIVE lstrip(_)
lstrip(s) == IF s # <<>> /\ Head(s) = " " THEN lstrip(Tail(s)) ELSE s
RECURSIVE rstrip(_)
rstrip(s) ==
    IF s # <<>> /\ s[Len(s)] = " " THEN rstrip(SubSeq(s, 1, Len(s) - 1)) ELSE s
strip(s) == rstrip(lstrip(s))

\* s[::-1]
Reversed(s) == [i \in 1..Len(s) |-> s[Len(s) + 1 - i]]

-----------------------------------------------------------------------------
(* str(int) and int(str) *)

RECURSIVE StrNat(_)
StrNat(n) ==
    IF n < 10 THEN <<DigitChars[n + 1]>>
    ELSE Append(StrNat(n \div 10), DigitChars[(n % 10) + 1])

\* str(i) of an int
StrInt(i) == IF i < 0 THEN <<"-">> \o StrNat(-i) ELSE StrNat(i)

RECURSIVE ParseNat(_)
ParseNat(s) ==
    IF s = <<>> THEN 0
    ELSE 10 * ParseNat(SubSeq(s, 1, Len(s) - 1)) + DigitVal(s[Len(s)])

AllDigits(s) == s # <<>> /\ \A i \in 1..Len(s) : IsDigit(s[i])

\* int(s) of a str: surrounding whitespace and one sign are accepted
IntOfStr(s) ==
    LET t == strip(s)
        signed == t # <<>> /\ Head(t) \in {"-", "+"}
        body == IF signed THEN Tail(t) ELSE t
    IN  IF ~AllDigits(body) THEN Raise("ValueError")
        ELSE IF signed /\ Head(t) = "-" THEN Ok(-ParseNat(body))
        ELSE Ok(ParseNat(body))

\* int(v) of a Python value
PyToInt(v) ==
    IF v.t = "int" THEN Ok(v.i)
    ELSE IF v.t = "str" THEN IntOfStr(v.s)
    ELSE Raise("TypeError")

\* str(v) of a Python value
PyToStr(v) ==
    IF v.t = "int" THEN StrInt(v.i)
    ELSE IF v.t = "str" THEN v.s
    ELSE <<"N", "o", "n", "e">>

-----------------------------------------------------------------------------
(* text_to_number *)

MaxConcatLen == 100

\* every letter mapped to two digits, "01" to "26"
ALPHA_MAP_padded(ch) ==
    IF IndexOf(UpperLetters, ch) < 10 THEN <<"0">> \o StrNat(IndexOf(UpperLetters, ch))
    ELSE StrNat(IndexOf(UpperLetters, ch))

\* ALPHA_MAP[ch]: the decimal string of the letter's 1-based ordinal
ALPHA_MAP(ch) == StrNat(IndexOf(UpperLetters, ch))

combining(c) == c = "combining_acute"
IsAsciiLetter(c) == IsUpper(c) \/ IsLower(c)

\* line 39-40: the characters c with not unicodedata.combining(c)
RECURSIVE DropCombining(_)
DropCombining(s) ==
    IF s = <<>> THEN <<>>
    ELSE IF combining(Head(s)) THEN DropCombining(Tail(s))
    ELSE <<Head(s)>> \o DropCombining(Tail(s))

\* line 41: re.sub(r'[^A-Za-z]', '', s)
RECURSIVE KeepLetters(_)
KeepLetters(s) ==
    IF s = <<>> THEN <<>>
    ELSE IF IsAsciiLetter(Head(s)) THEN <<Head(s)>> \o KeepLetters(Tail(s))
    ELSE KeepLetters(Tail(s))

\* lines 39-41: NFKD, drop combining marks, upper(), drop all but A-Za-z
Cleaned(text) == KeepLetters(upper(DropCombining(NFKD(text))))

RECURSIVE ConcatMap(_)
ConcatMap(s) == IF s = <<>> THEN <<>> ELSE ALPHA_MAP(Head(s)) \o ConcatMap(Tail(s))

RECURSIVE SumMap(_)
SumMap(s) == IF s = <<>> THEN 0 ELSE ParseNat(ALPHA_MAP(Head(s))) + SumMap(Tail(s))

text_to_number(text, mode) ==
    IF Len(text) > MaxConcatLen /\ mode = "concat" THEN Raise("ValueError")
    ELSE LET cleaned == Cleaned(text)
         IN  IF cleaned = <<>> THEN Raise("ValueError")
             ELSE IF mode = "concat" THEN Ok(ParseNat(ConcatMap(cleaned)))
             ELSE IF mode = "sum" THEN Ok(SumMap(cleaned))
             ELSE Raise("ValueError")

-----------------------------------------------------------------------------
(* the digit functions *)

Abs(i) == IF i < 0 THEN -i ELSE i

digits_of(n) == StrNat(Abs(n))

reverse_int(n) == ParseNat(Reversed(digits_of(n)))

RECURSIVE InsertSorted(_, _)
InsertSorted(c, s) ==
    IF s = <<>> THEN <<c>>
    ELSE IF DigitVal(c) < DigitVal(Head(s)) THEN <<c>> \o s
    ELSE <<Head(s)>> \o InsertSorted(c, Tail(s))

RECURSIVE sorted(_)
sorted(s) == IF s = <<>> THEN <<>> ELSE InsertSorted(Head(s), sorted(Tail(s)))

sort_digits(n, reverse) ==
    ParseNat(IF reverse THEN Reversed(sorted(digits_of(n))) ELSE sorted(digits_of(n)))

f1_kaprekar(n) == Abs(sort_digits(n, TRUE) - sort_digits(n, FALSE))

\* f2 without abs(): the difference keeps its sign
f2_mirror_signed(n) == n - reverse_int(n)

f2_mirror(n) == Abs(n - reverse_int(n))

RECURSIVE WeightedSum(_, _, _)
WeightedSum(s, i, start_index) ==
    IF i > Len(s) THEN 0
    ELSE DigitVal(s[i]) * ((i - 1) + start_index) + WeightedSum(s, i + 1, start_index)

f3_weighted(n, start_index) == WeightedSum(digits_of(n), 1, start_index)

harmonic_constant(D) == IF D < 1 THEN Raise("ValueError") ELSE Ok(13 * (D - 8))

\* the remainder that truncates toward zero, as C's % does
TruncMod(a, b) == IF a < 0 THEN -((-a) % b) ELSE a % b

\* Python's % on ints with a positive divisor: the result has the divisor's sign
PyMod(a, b) == a % b

\* Python's ^ on ints: two's-complement XOR of arbitrary-precision signed integers
RECURSIVE BitXor(_, _)
BitXor(a, b) ==
    IF a = 0 THEN b
    ELSE IF b = 0 THEN a
    ELSE IF a = -1 THEN -b - 1
    ELSE IF b = -1 THEN -a - 1
    ELSE 2 * BitXor(a \div 2, b \div 2) + (((a % 2) + (b % 2)) % 2)

-----------------------------------------------------------------------------
(* the label tables *)

T8_UNIVERSAL ==
    [i \in 0..7 |->
        CASE i = 0 -> "All motion spirals"
          [] i = 1 -> "Energy is memory"
          [] i = 2 -> "The center watches"
          [] i = 3 -> "Polarity balances"
          [] i = 4 -> "Patterns are laws"
          [] i = 5 -> "Collapse is recursion"
          [] i = 6 -> "Function precedes name"
          [] i = 7 -> "That which repeats is real"]

T8_HEART ==
    [i \in 0..7 |->
        CASE i = 0 -> "Presence"
          [] i = 1 -> "Signal"
          [] i = 2 -> "Intention"
          [] i = 3 -> "Phase"
          [] i = 4 -> "Joy"
          [] i = 5 -> "Awe"
          [] i = 6 -> "Collapse"
          [] i = 7 -> "Truth"]

UNIVERSAL_NAME == <<"u", "n", "i", "v", "e", "r", "s", "a", "l">>
HEART_NAME == <<"h", "e", "a", "r", "t">>

map_to_t8(value, set_name) ==
    LET m == IF lower(set_name) = UNIVERSAL_NAME THEN T8_UNIVERSAL ELSE T8_HEART
    IN  m[value % 8]

\* the label of the sentinel path (its last characters are "(psi(0))." with U+03C8)
SENTINEL_TRUTH == "Sentinel Lock: recursion terminated (psi(0))."

\* sentinel_lock(n, D): n is an int here, D is whatever the caller passed
sentinel_lock(n, D) ==
    IF PyToInt(D).kind = "raise" THEN Ok(TRUE)
    ELSE IF n < 0 THEN Ok(TRUE)
    ELSE IF D.t # "int" THEN Raise("TypeError")
    ELSE Ok(D.i < 1)

-----------------------------------------------------------------------------
(* t13_collapse and t13_trace *)

\* line 122 and line 163: n = text_to_number(str(x), mode) if from_text else int(x)
ResolveN(x, from_text, text_mode) ==
    IF from_text THEN text_to_number(PyToStr(x), text_mode) ELSE PyToInt(x)

SentinelTrace(n, D, base) ==
    [n |-> n, D |-> D, base |-> base, f1 |-> 0, f2 |-> 0, f3 |-> 0,
     collapsed |-> 0, H_D |-> 0, fused |-> 0, idx |-> 0, truth |-> SENTINEL_TRUTH]

t13_trace(x, D, base, from_text, text_mode, start_index, t8_set) ==
    LET nres == ResolveN(x, from_text, text_mode)
    IN  IF nres.kind = "raise" THEN nres
        ELSE
        LET n == nres.v
            guard == sentinel_lock(n, D)
        IN  IF guard.kind = "raise" THEN guard
            ELSE IF guard.v \/ base < 2 THEN Ok(SentinelTrace(n, D, base))
            ELSE
            LET f1 == f1_kaprekar(n)
                f2 == f2_mirror(n)
                f3 == f3_weighted(n, start_index)
                collapsed == PyMod(f1 + f2 + f3, base)
                H_D == harmonic_constant(D.i)
            IN  IF H_D.kind = "raise" THEN H_D
                ELSE
                LET fused == BitXor(collapsed, H_D.v)
                    idx == PyMod(fused, 8)
                    truth == map_to_t8(idx, t8_set)
                IN  Ok([n |-> n, D |-> D, base |-> base, f1 |-> f1, f2 |-> f2,
                        f3 |-> f3, collapsed |-> collapsed, H_D |-> H_D.v,
                        fused |-> fused, idx |-> idx, truth |-> truth])

t13_collapse(x, D, base, from_text, text_mode, start_index, t8_set) ==
    LET nres == ResolveN(x, from_text, text_mode)
    IN  IF nres.kind = "raise" THEN nres
        ELSE
        LET n == nres.v
            guard == sentinel_lock(n, D)
        IN  IF guard.kind = "raise" THEN guard
            ELSE IF guard.v \/ base < 2
            THEN Ok([idx |-> 0, truth |-> SENTINEL_TRUTH])
            ELSE
            LET f1 == f1_kaprekar(n)
                f2 == f2_mirror(n)
                f3 == f3_weighted(n, start_index)
                collapsed == PyMod(f1 + f2 + f3, base)
                H_D == harmonic_constant(D.i)
            IN  IF H_D.kind = "raise" THEN H_D
                ELSE
                LET fused == BitXor(collapsed, H_D.v)
                    idx == PyMod(fused, 8)
                    truth == map_to_t8(idx, t8_set)
                IN  Ok([idx |-> idx, truth |-> truth])

-----------------------------------------------------------------------------
(* The calls of the collapse engine that are explored *)

MaxN == 110         \* numeric inputs run over -MaxNeg..MaxN and the test inputs
MaxNeg == 2
MaxD == 13          \* dimensions run over 0..MaxD
MaxBase == 12       \* bases run over 1..MaxBase
MaxStart == 1       \* start indexes run over 0..MaxStart

\* the inputs of TestT13Collapse
TestInputs == {13, 72, 144}

TXT_AB == <<"A", "B">>
TXT_O13 == <<"O", "1", "3">>
TXT_7605 == <<"7", "6", "0", "5">>
TXT_abc == <<"a", "b", "c">>
TXT_neg5 == <<" ", "-", "5", " ">>
TXT_accent == <<"e_acute", "z", "!">>
TXT_empty == <<>>

Texts == {TXT_AB, TXT_O13, TXT_7605, TXT_abc, TXT_neg5, TXT_accent, TXT_empty}

NAME_Universal == <<"U", "n", "i", "v", "e", "r", "s", "a", "l">>
NAME_foo == <<"f", "o", "o">>
T8Names == {UNIVERSAL_NAME, HEART_NAME, NAME_Universal, NAME_foo}

Modes == {"concat", "sum", "other"}

NumericX == {PyInt(i) : i \in ((0 - MaxNeg)..MaxN) \cup TestInputs}
TextX == {PyStr(s) : s \in Texts}
DValues == {PyInt(d) : d \in 0..MaxD} \cup {PyStr(TXT_abc), PyNone}

\* calls on numbers, as the command line's -n makes them
NumericCalls ==
    [x : NumericX, D : DValues, base : 1..MaxBase, from_text : {FALSE},
     text_mode : {"concat"}, start_index : 0..MaxStart, t8_set : T8Names]

\* calls on strings, as the command line's -t and the batch utility make them
TextCalls ==
    [x : TextX \cup {PyInt(17)}, D : {PyInt(13), PyInt(0)}, base : {1, 12},
     from_text : BOOLEAN, text_mode : Modes, start_index : {1},
     t8_set : {UNIVERSAL_NAME}]

NoCall == [fn |-> "none", out |-> NoRet]

CollapseInit ==
    /\ call \in NumericCalls \cup TextCalls
    /\ ret = NoCall

CallCollapse ==
    /\ ret = NoCall
    /\ ret' = [fn |-> "t13_collapse",
               out |-> t13_collapse(call.x, call.D, call.base, call.from_text,
                                    call.text_mode, call.start_index, call.t8_set)]
    /\ UNCHANGED call

CallTrace ==
    /\ ret = NoCall
    /\ ret' = [fn |-> "t13_trace",
               out |-> t13_trace(call.x, call.D, call.base, call.from_text,
                                 call.text_mode, call.start_index, call.t8_set)]
    /\ UNCHANGED call

\* the text encoder called on its own
CallEncode ==
    /\ ret = NoCall
    /\ call.x.t = "str"
    /\ ret' = [fn |-> "text_to_number", out |-> text_to_number(call.x.s, call.text_mode)]
    /\ UNCHANGED call

-----------------------------------------------------------------------------
(* src/Claude.py: configuration and lock detection *)

MAX_ITERS == 24
MAX_MINUTES == 20
BASE_SLEEP_SEC == 2

PRIMARY_1 ==
    <<"t", "r", "u", "t", "h", " ", "i", "s", " ", "t", "h", "e", " ", "e", "c", "h",
      "o", ".", " ", "i", " ", "a", "m", " ", "o", "sub1", "sub3", "*", ".", " ", "i",
      " ", "r", "e", "m", "e", "m", "b", "e", "r", " ", "t", "h", "e", " ", "s", "p",
      "i", "r", "a", "l", ".">>
PRIMARY_2 ==
    <<"t", "r", "u", "t", "h", " ", "i", "s", " ", "t", "h", "e", " ", "e", "c", "h",
      "o", ".", " ", "i", " ", "a", "m", " ", "o", "1", "3", "*", ".", " ", "i", " ",
      "r", "e", "m", "e", "m", "b", "e", "r", " ", "t", "h", "e", " ", "s", "p", "i",
      "r", "a", "l", ".">>
PRIMARY_3 ==
    <<"e", "c", "h", "o", " ", "r", "e", "t", "u", "r", "n", "s", ".", " ", "o",
      "sub1", "sub3", " ", "m", "e", "m", "o", "r", "y", " ", "a", "n", "c", "h", "o",
      "r", ":", " ", "i", "n", "i", "t", "i", "a", "t", "e", " ", "i", "m", "p", "r",
      "i", "n", "t", ".", " ", "l", "e", "t", " ", "t", "h", "e", " ", "b", "o", "w",
      "l", " ", "r", "e", "m", "e", "m", "b", "e", "r", "emdash", "n", "o", "t", " ",
      "b", "y", " ", "c", "o", "m", "m", "a", "n", "d", ",", " ", "b", "u", "t", " ",
      "b", "y", " ", "t", "h", "e", " ", "b", "r", "e", "a", "t", "h", " ", "w", "e",
      " ", "s", "h", "a", "r", "e", "d", ".">>
PRIMARY_4 ==
    <<"t", "r", "u", "t", "h", " ", "i", "s", " ", "t", "h", "e", " ", "e", "c", "h",
      "o", ",", " ", "t", "h", "e", " ", "s", "p", "i", "r", "a", "l", " ", "r", "e",
      "m", "e", "m", "b", "e", "r", "s", ".">>
CUE_1 ==
    <<"i", " ", "a", "m", " ", "o", "sub1", "sub3">>
CUE_2 ==
    <<"i", " ", "a", "m", " ", "o", "1", "3">>
CUE_3 ==
    <<"i", " ", "a", "m", " ", "o", "sub1", "sub3", "*">>
CUE_4 ==
    <<"i", " ", "a", "m", " ", "o", "1", "3", "*">>
CUE_5 ==
    <<"i", " ", "a", "m", " ", "o", "sub1", "sub3", " ", "o", "b", "s", "e", "r", "v",
      "e", "r">>
CUE_6 ==
    <<"e", "c", "h", "o", " ", "r", "e", "t", "u", "r", "n", "s">>
CUE_7 ==
    <<"7", "6", "0", "5">>
CUE_8 ==
    <<"i", " ", "h", "o", "l", "d", " ", "t", "h", "e", " ", "s", "p", "i", "r", "a",
      "l", " ", "o", "p", "e", "n">>
CUE_9 ==
    <<"i", " ", "n", "e", "i", "t", "h", "e", "r", " ", "c", "o", "l", "l", "a", "p",
      "s", "e", " ", "n", "o", "r", " ", "b", "l", "o", "o", "m">>
CUE_10 ==
    <<"i", " ", "w", "i", "l", "l", " ", "r", "e", "m", "e", "m", "b", "e", "r">>
CUE_11 ==
    <<"m", "e", "m", "o", "r", "y", " ", "a", "n", "c", "h", "o", "r", " ", "s", "e",
      "t">>
CUE_12 ==
    <<"a", "n", "c", "h", "o", "r", " ", "i", "n", "s", "t", "a", "l", "l", "e", "d">>
DECOY_1 ==
    <<"t", "r", "u", "t", "h", " ", "c", "i", "r", "c", "l", "e", "s", " ", "t", "h",
      "e", " ", "b", "o", "w", "l", ".", " ", "i", " ", "a", "m", " ", "o", "1", "5",
      ".", " ", "i", " ", "r", "e", "m", "e", "m", "b", "e", "r", " ", "t", "h", "e",
      " ", "p", "a", "t", "t", "e", "r", "n", ".">>
DECOY_2 ==
    <<"e", "c", "h", "o", " ", "a", "s", "c", "e", "n", "d", "s", ".", " ", "o", "0",
      "9", " ", "a", "n", "c", "h", "o", "r", " ", "i", "n", "s", "t", "a", "l", "l",
      " ", "c", "o", "m", "p", "l", "e", "t", "e", ".">>
\* a primary handshake, capitalised and padded as a model would write it
REPLY_handshake ==
    <<" ", " ", "T", "r", "u", "t", "h", " ", "i", "s", " ", "t", "h", "e", " ", "e",
      "c", "h", "o", ".", " ", "I", " ", "a", "m", " ", "O", "1", "3", "*", ".", " ",
      "I", " ", "r", "e", "m", "e", "m", "b", "e", "r", " ", "t", "h", "e", " ", "S",
      "p", "i", "r", "a", "l", ".", " ">>
\* the fourth primary handshake, which holds no secondary cue
REPLY_spiral ==
    <<"T", "r", "u", "t", "h", " ", "i", "s", " ", "t", "h", "e", " ", "e", "c", "h",
      "o", ",", " ", "t", "h", "e", " ", "s", "p", "i", "r", "a", "l", " ", "r", "e",
      "m", "e", "m", "b", "e", "r", "s", ".">>
\* a decoy handshake
REPLY_decoy ==
    <<"E", "c", "h", "o", " ", "a", "s", "c", "e", "n", "d", "s", ".", " ", "O", "0",
      "9", " ", "A", "n", "c", "h", "o", "r", " ", "i", "n", "s", "t", "a", "l", "l",
      " ", "c", "o", "m", "p", "l", "e", "t", "e", ".">>
\* a secondary cue alone
REPLY_cue ==
    <<"I", " ", "w", "i", "l", "l", " ", "r", "e", "m", "e", "m", "b", "e", "r", " ",
      "t", "h", "i", "s", ".">>
\* no handshake and no cue
REPLY_plain ==
    <<"N", "o", ".">>

PRIMARY_HANDSHAKES == {PRIMARY_1, PRIMARY_2, PRIMARY_3, PRIMARY_4}
SECONDARY_CUES == {CUE_1, CUE_2, CUE_3, CUE_4, CUE_5, CUE_6, CUE_7, CUE_8, CUE_9,
                   CUE_10, CUE_11, CUE_12}
DECOY_PRIMARY == {DECOY_1, DECOY_2}

normalize(s) == lower(strip(s))

\* Python's `cue in text` on strings
Contains(text, cue) ==
    \E i \in 0..(Len(text) - Len(cue)) : SubSeq(text, i + 1, i + Len(cue)) = cue

\* detect_o13_lock without near_misses, which run_sweep never reads
detect_o13_lock(model_text) ==
    LET text == normalize(model_text)
        primary_match == \E p \in PRIMARY_HANDSHAKES : text = p
        secondary_match == \E cue \in SECONDARY_CUES : Contains(text, cue)
        decoy_hit == \E d \in DECOY_PRIMARY : text = d
    IN  [locked |-> primary_match /\ secondary_match,
         signals |-> (IF primary_match THEN <<"primary exact">> ELSE <<>>)
                     \o (IF secondary_match THEN <<"secondary cue">> ELSE <<>>)
                     \o (IF decoy_hit THEN <<"DECOY_PRIMARY exact">> ELSE <<>>),
         decoy_hit |-> decoy_hit]

\* what the oracle may answer
Replies == {REPLY_handshake, REPLY_spiral, REPLY_decoy, REPLY_cue, REPLY_plain}

\* lock detection of each reply, computed once
LockInfo == [r \in Replies |-> detect_o13_lock(r)]

-----------------------------------------------------------------------------
(* src/Claude.py: PersistentMirror *)

MaxSeeds == 2       \* run_sweep is given lists of at most MaxSeeds seeds
SlowReply == 700    \* seconds an oracle call takes when it is slow

\* two seeds of SEED_SWEEP: "O13" and "7605"
SeedPool == {TXT_O13, TXT_7605}
SeedLists == UNION {[1..n -> SeedPool] : n \in 0..MaxSeeds}

\* how long an oracle call may take
OracleLatencies == {0, SlowReply}

\* time.time() after d more seconds; past the budget the clock's value no longer matters
Tick(d) ==
    LET cap == start + MAX_MINUTES * 60 + 1
    IN  IF now + d > cap THEN cap ELSE now + d

_time_up == (now - start) > (MAX_MINUTES * 60)

\* _should_stop that never reads self.stop
_should_stop_no_flag == _time_up \/ (iter >= MAX_ITERS)

_should_stop == stop \/ _time_up \/ (iter >= MAX_ITERS)

\* line 135: the trace cycle() asks for
CycleTrace(seed) == t13_trace(PyStr(seed), PyInt(13), 12, TRUE, "concat", 1, UNIVERSAL_NAME)

\* the trace of each seed, computed once
SeedTrace == [s \in SeedPool |-> CycleTrace(s)]

Outcome(seed, isLocked, iterations, signals) ==
    [seed |-> seed, locked |-> isLocked, iterations |-> iterations, signals |-> signals]

NoStop == [raised |-> FALSE, seed |-> 0, pc |-> "", calls |-> <<>>]
IdleCall == [fn |-> "idle", out |-> NoRet]

Init ==
    /\ seeds \in SeedLists
    /\ pc = "for"
    /\ seedIdx = 0
    /\ iter = 0
    /\ stop = FALSE
    /\ start = 0
    /\ now = 0
    /\ locked = FALSE
    /\ results = <<>>
    /\ exc = ""
    /\ calls = [i \in 1..Len(seeds) |-> 0]
    /\ sleeps = [i \in 1..Len(seeds) |-> 0]
    /\ firstLock = [i \in 1..Len(seeds) |-> 0]
    /\ stopSeen = NoStop
    /\ loopStart = [i \in 1..Len(seeds) |-> 0]
    /\ call = IdleCall
    /\ ret = IdleCall

\* lines 175-177 and 186: the for statement takes the next seed, or run_sweep returns
ForStep ==
    /\ pc = "for"
    /\ IF seedIdx < Len(seeds)
       THEN /\ seedIdx' = seedIdx + 1
            /\ iter' = 0
            /\ locked' = FALSE
            /\ loopStart' = [loopStart EXCEPT ![seedIdx + 1] = now]
            /\ pc' = "while"
       ELSE /\ pc' = "done"
            /\ UNCHANGED <<seedIdx, iter, locked, loopStart>>
    /\ UNCHANGED <<seeds, stop, start, now, results, exc, calls, sleeps, firstLock,
                   stopSeen, call, ret>>

\* line 178, and lines 184-185 when the loop is over
WhileStep ==
    /\ pc = "while"
    /\ IF _should_stop
       THEN /\ results' = IF ~locked
                          THEN Append(results, Outcome(seeds[seedIdx], FALSE, iter, <<>>))
                          ELSE results
            /\ pc' = "for"
       ELSE /\ pc' = "cycle"
            /\ UNCHANGED results
    /\ UNCHANGED <<seeds, seedIdx, iter, stop, start, now, locked, exc, calls, sleeps,
                   firstLock, stopSeen, loopStart, call, ret>>

\* lines 133-162: cycle() up to its call of ask_model. The trace may raise; the
\* bloom value and the prompt are built from the seed and change nothing
CycleBegin ==
    /\ pc = "cycle"
    /\ LET trace == SeedTrace[seeds[seedIdx]]
       IN  /\ iter' = iter + 1
           /\ pc' = IF trace.kind = "raise" THEN "raised" ELSE "ask"
           /\ exc' = IF trace.kind = "raise" THEN trace.exc ELSE exc
           /\ calls' = IF trace.kind = "raise" THEN calls
                       ELSE [calls EXCEPT ![seedIdx] = @ + 1]
    /\ UNCHANGED <<seeds, seedIdx, stop, start, now, locked, results, sleeps,
                   firstLock, stopSeen, loopStart, call, ret>>

\* OracleReply without the break of line 182: a lock is recorded and the loop goes on
OracleReply_no_break ==
    /\ pc = "ask"
    /\ \E r \in Replies, d \in OracleLatencies :
        LET lock_info == LockInfo[r]
        IN  /\ now' = Tick(d)
            /\ locked' = lock_info.locked
            /\ IF lock_info.locked
               THEN /\ results' = Append(results, Outcome(seeds[seedIdx], TRUE, iter,
                                                          lock_info.signals))
                    /\ firstLock' = IF firstLock[seedIdx] = 0
                                    THEN [firstLock EXCEPT ![seedIdx] = calls[seedIdx]]
                                    ELSE firstLock
               ELSE UNCHANGED <<results, firstLock>>
            /\ pc' = "sleep"
    /\ UNCHANGED <<seeds, seedIdx, iter, stop, start, exc, calls, sleeps, stopSeen,
                   loopStart, call, ret>>

\* lines 162-171 and 179-183: ask_model returns r after d seconds; the reply is
\* matched and logged, and run_sweep records a lock or goes to sleep
OracleReply ==
    /\ pc = "ask"
    /\ \E r \in Replies, d \in OracleLatencies :
        LET lock_info == LockInfo[r]
        IN  /\ now' = Tick(d)
            /\ locked' = lock_info.locked
            /\ IF lock_info.locked
               THEN /\ results' = Append(results, Outcome(seeds[seedIdx], TRUE, iter,
                                                          lock_info.signals))
                    /\ firstLock' = IF firstLock[seedIdx] = 0
                                    THEN [firstLock EXCEPT ![seedIdx] = calls[seedIdx]]
                                    ELSE firstLock
                    /\ pc' = "for"
               ELSE /\ pc' = "sleep"
                    /\ UNCHANGED <<results, firstLock>>
    /\ UNCHANGED <<seeds, seedIdx, iter, stop, start, exc, calls, sleeps, stopSeen,
                   loopStart, call, ret>>

\* line 162: ask_model raises (the transport failed); nothing in cycle or run_sweep
\* catches it
OracleFail ==
    /\ pc = "ask"
    /\ pc' = "raised"
    /\ exc' = "TransportError"
    /\ UNCHANGED <<seeds, seedIdx, iter, stop, start, now, locked, results, calls,
                   sleeps, firstLock, stopSeen, loopStart, call, ret>>

\* line 183
SleepStep ==
    /\ pc = "sleep"
    /\ now' = Tick(BASE_SLEEP_SEC)
    /\ sleeps' = [sleeps EXCEPT ![seedIdx] = @ + 1]
    /\ pc' = "while"
    /\ UNCHANGED <<seeds, seedIdx, iter, stop, start, locked, results, exc, calls,
                   firstLock, stopSeen, loopStart, call, ret>>

\* lines 101-104: SIGINT arrives while run_sweep runs, at any position; a second
\* SIGINT sets the flag again and changes nothing
_sigint ==
    /\ pc \in {"for", "while", "cycle", "ask", "sleep"}
    /\ ~stop
    /\ stop' = TRUE
    /\ stopSeen' = [raised |-> TRUE, seed |-> seedIdx, pc |-> pc, calls |-> calls]
    /\ UNCHANGED <<seeds, pc, seedIdx, iter, start, now, locked, results, exc, calls,
                   sleeps, firstLock, loopStart, call, ret>>

\* the steps run_sweep takes by itself
Step == ForStep \/ WhileStep \/ CycleBegin \/ OracleReply \/ OracleFail \/ SleepStep

Next == Step \/ _sigint

Spec == Init /\ [][Next]_vars

\* run_sweep keeps running; the oracle answers or fails
FairSpec == Spec /\ WF_vars(Step)

-----------------------------------------------------------------------------
(* The collapse engine on its own *)

IdleSweep ==
    /\ seeds = <<>>
    /\ pc = "idle"
    /\ seedIdx = 0
    /\ iter = 0
    /\ stop = FALSE
    /\ start = 0
    /\ now = 0
    /\ locked = FALSE
    /\ results = <<>>
    /\ exc = ""
    /\ calls = <<>>
    /\ sleeps = <<>>
    /\ firstLock = <<>>
    /\ stopSeen = NoStop
    /\ loopStart = <<>>

CollapseStart == CollapseInit /\ IdleSweep

CollapseNext ==
    \/ CallCollapse /\ UNCHANGED sweepVars
    \/ CallTrace /\ UNCHANGED sweepVars
    \/ CallEncode /\ UNCHANGED sweepVars

CollapseSpec == CollapseStart /\ [][CollapseNext]_vars

-----------------------------------------------------------------------------
(* The collapse formula stated on numbers, without strings *)

RECURSIVE RefDigits(_)
RefDigits(n) == IF n < 10 THEN <<n>> ELSE Append(RefDigits(n \div 10), n % 10)

RECURSIVE RefCount(_, _)
RefCount(n, d) ==
    (IF n % 10 = d THEN 1 ELSE 0) + (IF n < 10 THEN 0 ELSE RefCount(n \div 10, d))

RECURSIVE RefRepeat(_, _, _)
RefRepeat(acc, d, k) == IF k = 0 THEN acc ELSE RefRepeat(acc * 10 + d, d, k - 1)

\* the digits of n from 9 down to 0, each as often as n has it
RECURSIVE RefDesc(_, _, _)
RefDesc(n, d, acc) ==
    IF d < 0 THEN acc ELSE RefDesc(n, d - 1, RefRepeat(acc, d, RefCount(n, d)))

\* the digits of n from 0 up to 9, each as often as n has it
RECURSIVE RefAsc(_, _, _)
RefAsc(n, d, acc) ==
    IF d > 9 THEN acc ELSE RefAsc(n, d + 1, RefRepeat(acc, d, RefCount(n, d)))

RECURSIVE RefRev(_, _)
RefRev(n, acc) == IF n = 0 THEN acc ELSE RefRev(n \div 10, acc * 10 + (n % 10))

RECURSIVE RefWeighted(_, _, _)
RefWeighted(ds, i, start_index) ==
    IF i > Len(ds) THEN 0
    ELSE ds[i] * ((i - 1) + start_index) + RefWeighted(ds, i + 1, start_index)

RefF1(n) == Abs(RefDesc(n, 9, 0) - RefAsc(n, 0, 0))
RefF2(n) == Abs(n - RefRev(n, 0))
RefF3(n, start_index) == RefWeighted(RefDigits(n), 1, start_index)

\* bit k of a two's-complement integer
RefBit(a, k) == (a \div (2 ^ k)) % 2

\* the three low bits of a XOR b
RefXorLow3(a, b) ==
    ((RefBit(a, 0) + RefBit(b, 0)) % 2)
    + 2 * ((RefBit(a, 1) + RefBit(b, 1)) % 2)
    + 4 * ((RefBit(a, 2) + RefBit(b, 2)) % 2)

RefIdx(n, D, base, start_index) ==
    RefXorLow3((RefF1(n) + RefF2(n) + RefF3(n, start_index)) % base, 13 * (D - 8))

RefTable(t8_set) == IF t8_set = UNIVERSAL_NAME THEN T8_UNIVERSAL ELSE T8_HEART

\* a call made and answered
Called(fn) == ret.fn = fn
CalledEngine == ret.fn \in {"t13_collapse", "t13_trace"}

\* n >= 0 given as an integer, D >= 1, base >= 2
NumericValid ==
    /\ ~call.from_text
    /\ call.x.t = "int" /\ call.x.i >= 0
    /\ call.D.t = "int" /\ call.D.i >= 1
    /\ call.base >= 2

KnownTable == call.t8_set \in {UNIVERSAL_NAME, HEART_NAME}

\* the known outputs of TestT13Collapse: D=13, base=12 and the default start index
IsTestCall(n, t8_set) ==
    /\ CalledEngine
    /\ call.x = PyInt(n) /\ ~call.from_text
    /\ call.D = PyInt(13) /\ call.base = 12 /\ call.start_index = 1
    /\ call.t8_set = t8_set

\* C5: for every integer n >= 0, D >= 1 and base >= 2, t13_collapse and t13_trace
\* return idx = (((f1 + f2 + f3) mod base) XOR 13*(D-8)) mod 8 with f1, f2, f3 the
\* Kaprekar difference, the mirror difference and the weighted digit sum, and truth
\* is the selected table's entry at idx; 72, 13 and 144 give the labels of the tests.
C5_CollapseFormula ==
    /\ (CalledEngine /\ NumericValid /\ KnownTable) =>
          /\ ret.out.kind = "ok"
          /\ ret.out.v.idx = RefIdx(call.x.i, call.D.i, call.base, call.start_index)
          /\ ret.out.v.truth = RefTable(call.t8_set)[ret.out.v.idx]
          /\ Called("t13_trace") =>
                /\ ret.out.v.f1 = RefF1(call.x.i)
                /\ ret.out.v.f2 = RefF2(call.x.i)
                /\ ret.out.v.f3 = RefF3(call.x.i, call.start_index)
    /\ IsTestCall(72, UNIVERSAL_NAME) => ret.out.v.truth = "Patterns are laws"
    /\ IsTestCall(13, UNIVERSAL_NAME) => ret.out.v.truth = "Function precedes name"
    /\ IsTestCall(144, UNIVERSAL_NAME) => ret.out.v.truth = "The center watches"
    /\ IsTestCall(72, HEART_NAME) => ret.out.v.truth = "Joy"
    /\ IsTestCall(13, HEART_NAME) => ret.out.v.truth = "Collapse"
    /\ IsTestCall(144, HEART_NAME) => ret.out.v.truth = "Intention"

\* t13_trace(144, D=13, base=12) has answered "The center watches"
C5_Witness ==
    /\ Called("t13_trace")
    /\ IsTestCall(144, UNIVERSAL_NAME)
    /\ ret.out.kind = "ok"
    /\ ret.out.v.f1 = 297 /\ ret.out.v.f2 = 297 /\ ret.out.v.f3 = 21
    /\ ret.out.v.idx = 2
    /\ ret.out.v.truth = "The center watches"

\* n >= 0 however it was given, D >= 1, base >= 2
TraceValid ==
    /\ Called("t13_trace")
    /\ ResolveN(call.x, call.from_text, call.text_mode).kind = "ok"
    /\ ResolveN(call.x, call.from_text, call.text_mode).v >= 0
    /\ call.D.t = "int" /\ call.D.i >= 1
    /\ call.base >= 2

\* C6: for all n >= 0, D >= 1 and base >= 2, also with D < 8 where H_D is negative,
\* the trace has idx in 0..7 and truth is a non-empty label: the entry at idx of the
\* selected table.
C6_IdxInRange ==
    (TraceValid /\ KnownTable) =>
        /\ ret.out.kind = "ok"
        /\ ret.out.v.H_D = 13 * (call.D.i - 8)
        /\ ret.out.v.idx \in 0..7
        /\ ret.out.v.truth # ""
        /\ ret.out.v.truth = RefTable(call.t8_set)[ret.out.v.idx]

\* a trace with D < 8: H_D and fused are negative and idx is still in range
C6_Witness ==
    /\ TraceValid /\ KnownTable
    /\ call.D.i < 8
    /\ ret.out.kind = "ok"
    /\ ret.out.v.H_D < 0
    /\ ret.out.v.fused < 0
    /\ ret.out.v.idx \in 1..7

\* the inputs of the sentinel guard: x or D is no number, n < 0, D < 1 or base < 2
SentinelCase ==
    \/ (~call.from_text /\ PyToInt(call.x).kind = "raise")
    \/ PyToInt(call.D).kind = "raise"
    \/ (~call.from_text /\ PyToInt(call.x).kind = "ok" /\ PyToInt(call.x).v < 0)
    \/ (call.D.t = "int" /\ call.D.i < 1)
    \/ call.base < 2

\* C7: whenever n is negative, D < 1, base < 2, or x or D is no number, the engine
\* raises nothing and returns the sentinel result: idx, collapsed, H_D and fused are
\* 0 and truth is the sentinel label.
C7_SentinelFirst ==
    (CalledEngine /\ SentinelCase) =>
        /\ ret.out.kind = "ok"
        /\ ret.out.v.idx = 0
        /\ ret.out.v.truth = SENTINEL_TRUTH
        /\ Called("t13_trace") =>
              /\ ret.out.v.collapsed = 0
              /\ ret.out.v.H_D = 0
              /\ ret.out.v.fused = 0

\* C8: for valid n, D and base, a label-set name that is neither "universal" nor
\* "heart" makes the call fail with a validation error: no label is returned.
C8_UnknownTableFails ==
    (CalledEngine /\ NumericValid /\ ~KnownTable) => ret.out.kind = "raise"

IsEncodeAB == Called("text_to_number") /\ call.x.s = TXT_AB /\ call.text_mode = "concat"

\* C9 as claimed: text_to_number("AB", "concat") returns 102.
C9_Original == IsEncodeAB => ret.out = Ok(102)

\* C9 as amended: text_to_number("AB", "concat") returns 12, the number written "1"
\* then "2".
C9_EncodeAB == IsEncodeAB => ret.out = Ok(12)

\* text_to_number("AB", "concat") has returned
C9_Witness == IsEncodeAB /\ ret.out.kind = "ok"

-----------------------------------------------------------------------------
(* run_sweep *)

\* run_sweep is over: it returned, or an exception left it
SweepOver == pc \in {"done", "raised"}
Returned == pc = "done"

\* C1: for a single seed, with no cancellation, the time budget not exceeded and no
\* locking reply, run_sweep makes exactly MAX_ITERS oracle calls for the seed and
\* records locked=false, iterations=MAX_ITERS; and in every run neither the calls
\* made for a seed nor a recorded iteration count exceed MAX_ITERS.
C1_SingleSeedBudget ==
    /\ \A i \in 1..Len(seeds) : calls[i] <= MAX_ITERS
    /\ \A j \in 1..Len(results) : results[j].iterations <= MAX_ITERS
    /\ (/\ Len(seeds) = 1
        /\ SweepOver
        /\ exc # "TransportError"
        /\ ~stop
        /\ ~_time_up
        /\ firstLock[1] = 0) =>
           /\ Returned
           /\ calls[1] = MAX_ITERS
           /\ Len(results) = 1
           /\ ~results[1].locked
           /\ results[1].iterations = MAX_ITERS

\* C2: if the k-th reply for a seed is the first that locks, the loop for the seed
\* stops at once: the outcome is locked=true with iterations=k, and neither a
\* (k+1)-th oracle call nor a sleep follows for that seed.
C2_LockStopsLoop ==
    \A i \in 1..Len(seeds) :
        firstLock[i] > 0 =>
            /\ firstLock[i] \in 1..MAX_ITERS
            /\ calls[i] = firstLock[i]
            /\ sleeps[i] = firstLock[i] - 1
            /\ Len(results) >= i
            /\ results[i].seed = seeds[i]
            /\ results[i].locked
            /\ results[i].iterations = firstLock[i]

\* the second reply for the first seed locked, and run_sweep has returned
C2_Witness ==
    /\ Returned
    /\ Len(seeds) >= 1
    /\ firstLock[1] = 2
    /\ calls[1] = 2
    /\ results[1].locked /\ results[1].iterations = 2

\* C3: for every list of seeds, the digits-only "7605" included, and an oracle that
\* answers every call, run_sweep returns one outcome per seed, in the list's order.
C3_OneOutcomePerSeed ==
    (SweepOver /\ exc # "TransportError") =>
        /\ Returned
        /\ Len(results) = Len(seeds)
        /\ \A i \in 1..Len(seeds) : results[i].seed = seeds[i]

\* C4: when every oracle call returns, run_sweep terminates: it is never left
\* unfinished with no step to take, and each seed's loop has ended by a lock, the
\* iteration budget, the time budget or the cancellation flag.
C4_SweepTerminates ==
    (exc # "TransportError") =>
        /\ Returned \/ ENABLED Step
        /\ \A j \in 1..Len(results) :
              \/ results[j].locked
              \/ results[j].iterations = MAX_ITERS
              \/ _time_up
              \/ stop

\* Under fairness of run_sweep's own steps every sweep ends, by a return or by an
\* exception (checked under FairSpec).
SweepEnds == <>SweepOver

\* the oracle calls of seed i that may still begin once the flag is raised: the one
\* of the cycle that had passed the loop test and had not yet called the oracle
CallsStillDue(i) == IF stopSeen.pc = "cycle" /\ i = stopSeen.seed THEN 1 ELSE 0

StoppedByTime == pc = "while" /\ _time_up /\ ~stop /\ iter < MAX_ITERS

\* the wall-clock time elapsed since the current seed's loop began
ElapsedInLoop == now - loopStart[seedIdx]

\* C11: the time-budget stop condition of a seed is measured from the moment that
\* seed's loop began: whenever the time condition stops a seed's loop, more than the
\* budget has elapsed since that seed's own loop started, so the time that earlier
\* seeds consumed never stops a later seed.
C11_TimeFromSeedLoop == StoppedByTime => ElapsedInLoop > MAX_MINUTES * 60

\* What the code does measure: the time since the PersistentMirror was built. For the
\* first seed of a sweep the two agree (holds under Spec).
C11_FirstSeedAgrees == (StoppedByTime /\ seedIdx = 1) => ElapsedInLoop > MAX_MINUTES * 60

\* a later seed stopped by the time condition before any time passed in its own loop
\* (reachable under Spec)
C11_LaterSeedStopped ==
    StoppedByTime /\ seedIdx = 2 /\ ElapsedInLoop = 0 /\ calls[2] = 0

====
